---- MODULE Spec2Model ----
(***************************************************************************)
(* MathAgent (src/math_agent/agent.py): the workflow generation and        *)
(* execution engine.  One agent instance performs one run().  run() is     *)
(* sequential; pc is its position, and each action is one block of run()   *)
(* (or of the method it calls) between two observable points.  The         *)
(* language-model transport (send_request), the validator (check_workflow) *)
(* and the tool registry (pre_select_tools) are collaborators of the base  *)
(* class: their outcomes are chosen by the environment, and the calls made *)
(* to them are recorded in requests, checked and tool_calls.               *)
(* get_status() may be called at any point of the run.                     *)
(* Timestamps and stack traces of log entries are not modelled.            *)
(***************************************************************************)
EXTENDS Integers, Sequences, FiniteSets, TLC

VARIABLES
    workflow_mode,   \* self.workflow_mode
    task_input,      \* self.task_input
    status,          \* self.status
    rounds,          \* self.rounds
    messages,        \* self.messages
    debug_logs,      \* self.debug_logs
    pc,              \* position in run()
    workflow,        \* local `workflow` of run()
    plan_i,          \* loop index i of automatic_workflow (0-based)
    step_i,          \* loop index i of the step loop of run() (0-based)
    selected_tools,  \* local `selected_tools` of run()
    requests,        \* every send_request call, in call order
    checked,         \* every check_workflow result, in call order
    tool_calls,      \* every pre_select_tools argument, in call order
    ret,             \* what run() returned (at most one RunResult)
    status_info,     \* what the last get_status() returned
    status_calls     \* number of get_status() calls so far

vars == <<workflow_mode, task_input, status, rounds, messages, debug_logs, pc,
          workflow, plan_i, step_i, selected_tools, requests, checked,
          tool_calls, ret, status_info, status_calls>>

(***************************************************************************)
(* Bounds of the model                                                     *)
(***************************************************************************)
MaxStatusCalls == 1

(***************************************************************************)
(* Program constants and inputs                                            *)
(***************************************************************************)
plan_max_fail_times == 3

WorkflowModes == {"manual", "automatic"}

TaskInputs == {"Solve x^2 - 4 = 0", "Integrate x dx"}

\* response.response_message of a step request
Responses == {"x = 2 or x = -2", "I need more information"}

\* str(e) of an exception raised by a collaborator
Exceptions == {"ConnectionError"}

\* str(e) of the exception json.dumps raises at line 78
SerializationErrors == {"Object of type PosixPath is not JSON serializable"}

\* "".join(self.config["description"])
prefix == "You are a math expert"

(***************************************************************************)
(* Values                                                                  *)
(***************************************************************************)
\* The text of a message.  The f-strings of the source are kept as their
\* template (kind) and their arguments (n, text, wf).
Content(kind, n, text, wf) == [kind |-> kind, n |-> n, text |-> text, wf |-> wf]

Text(s) == Content("text", 0, s, <<>>)

Message(role, content) == [role |-> role, content |-> content]

Step(action_type, action, tool_use) ==
    [action_type |-> action_type, action |-> action, tool_use |-> tool_use]

\* Python None against a list value
None == [none |-> TRUE, val |-> <<>>]

Some(v) == [none |-> FALSE, val |-> v]

\* "is not None" in place of truthiness: an empty list passes
TruthyNotNone(w) == ~w.none

\* Python truthiness of an Optional[list]
Truthy(w) == ~w.none /\ w.val # <<>>

plan_instruction == Content("plan_instruction", 0, "", <<>>)

\* The notice numbered with the 0-based loop index
FailNoticeZeroBased(n) == Content("Fail {i+1} times to generate a valid plan. I need to regenerate a plan", n - 1, "", <<>>)

FailNotice(n) == Content("Fail {i+1} times to generate a valid plan. I need to regenerate a plan", n, "", <<>>)

WorkflowSummary(wf) == Content("[Thinking]: The workflow generated for the problem is {json.dumps(workflow)}. Follow the workflow to solve the problem step by step. ", 0, "", wf)

StepPrompt(n, action) == Content("At step {i + 1}, you need to: {action}. ", n, action, <<>>)

\* A template whose analysis step also asks for a tool
ManualTemplateAllTools ==
    << Step("tool_use", "Search for relevant mathematical concepts and formulas", <<"demo_author/arxiv">>),
       Step("tool_use", "Analyze the mathematical problem and provide solution steps", <<"demo_author/arxiv">>),
       Step("chat", "Calculate and verify the final answer", <<>>) >>

\* The fixed template of manual_workflow
ManualTemplate ==
    << Step("tool_use", "Search for relevant mathematical concepts and formulas", <<"demo_author/arxiv">>),
       Step("chat", "Analyze the mathematical problem and provide solution steps", <<>>),
       Step("chat", "Calculate and verify the final answer", <<>>) >>

\* Workflows the validator may accept in automatic mode.  The source does not
\* tie action_type to tool_use, so both mixed combinations occur.
PlanA == << Step("tool_use", "look up the formula", <<>>) >>

PlanB == << Step("chat", "solve the equation", <<"demo_author/calculator">>),
            Step("chat", "verify the answer", <<>>) >>

AcceptedPlans == {PlanA, PlanB}

\* What check_workflow may return: None, an empty list, or a list of steps
CheckResults == {None, Some(<<>>)} \cup {Some(w) : w \in AcceptedPlans}

(***************************************************************************)
(* StatusTracker: _log_debug, _log_error, _update_status                   *)
(***************************************************************************)
LogEntry(type, message, args, n, error) ==
    [type |-> type, message |-> message, args |-> args, n |-> n, error |-> error]

\* A log that keeps only its five most recent entries
log_debug_capped(logs, message, args, n) ==
    Append(IF Len(logs) >= 5 THEN Tail(logs) ELSE logs,
           LogEntry("debug", message, args, n, <<>>))

\* _log_debug(message): the new value of debug_logs
log_debug(logs, message, args, n) ==
    Append(logs, LogEntry("debug", message, args, n, <<>>))

\* _log_error(message, error): the new value of debug_logs
log_error(logs, message, e) ==
    Append(logs, LogEntry("error", message, <<>>, 0, <<e>>))

StatusChangedFmt == "Status changed: {old_status} -> {new_status}"

StatusChanged(old, new) == LogEntry("debug", StatusChangedFmt, <<old, new>>, 0, <<>>)

\* old_status read after self.status was overwritten
update_status_stale(logs, old_status, new_status) ==
    Append(logs, StatusChanged(new_status, new_status))

\* _update_status(new_status): the new value of debug_logs; the caller sets
\* status' to new_status
update_status(logs, old_status, new_status) ==
    Append(logs, StatusChanged(old_status, new_status))

(***************************************************************************)
(* Initial state: after MathAgent.__init__; workflow_mode is "manual"      *)
(* unless the caller sets it to "automatic" before run().                  *)
(***************************************************************************)
Init ==
    /\ workflow_mode \in WorkflowModes
    /\ task_input \in TaskInputs
    /\ status = "initialized"
    /\ rounds = 0
    /\ messages = <<>>
    /\ debug_logs = log_debug(
                      log_debug(<<>>, "MathAgent initialized with name: {agent_name}, task: {task_input}", <<task_input>>, 0),
                      "Initial status: {self.status}", <<"initialized">>, 0)
    /\ pc = "init"
    /\ workflow = None
    /\ plan_i = 0
    /\ step_i = 0
    /\ selected_tools = None
    /\ requests = <<>>
    /\ checked = <<>>
    /\ tool_calls = <<>>
    /\ ret = <<>>
    /\ status_info = <<>>
    /\ status_calls = 0

(***************************************************************************)
(* run()                                                                   *)
(***************************************************************************)
RunResult(result, r, s, error) ==
    [result |-> result, rounds |-> r, status |-> s, error |-> error]

\* lines 94-95
run_begin ==
    /\ pc = "init"
    /\ status' = "running"
    /\ debug_logs' = log_debug(update_status(debug_logs, status, "running"),
                               "Starting run with task: {self.task_input}", <<task_input>>, 0)
    /\ pc' = "build"
    /\ UNCHANGED <<workflow_mode, task_input, rounds, messages, workflow, plan_i,
                   step_i, selected_tools, requests, checked, tool_calls, ret,
                   status_info, status_calls>>

\* A handler that logs and re-raises: the exception leaves run()
except_handler_reraise(logs, e) ==
    /\ status' = "error"
    /\ debug_logs' = log_error(update_status(logs, status, "error"),
                               "Error during execution", e)
    /\ ret' = ret
    /\ pc' = "raised"

\* A handler that counts the aborted step as a round
except_handler_counts(logs, e) ==
    /\ status' = "error"
    /\ debug_logs' = log_error(update_status(logs, status, "error"),
                               "Error during execution", e)
    /\ ret' = << RunResult(Content("Error occurred during execution: {str(e)}", 0, e, <<>>),
                           rounds + 1, "error", <<e>>) >>
    /\ pc' = "done"

\* lines 177-189: the top-level handler of run(), entered with exception e
\* when the log holds logs
except_handler(logs, e) ==
    /\ status' = "error"
    /\ debug_logs' = log_error(update_status(logs, status, "error"),
                               "Error during execution", e)
    /\ ret' = << RunResult(Content("Error occurred during execution: {str(e)}", 0, e, <<>>),
                           rounds, "error", <<e>>) >>
    /\ pc' = "done"

\* The system message is appended before the lookups that may raise
build_system_instruction_appends_first ==
    /\ pc = "build"
    /\ \/ /\ messages' =
               IF workflow_mode = "manual"
               THEN Append(messages, Message("system", Text(prefix)))
               ELSE Append(Append(messages, Message("system", Text(prefix))),
                           Message("user", plan_instruction))
          /\ status' = "system_instruction_built"
          /\ debug_logs' = update_status(
                             update_status(debug_logs, status, "building_system_instruction"),
                             "building_system_instruction", "system_instruction_built")
          /\ pc' = "task"
          /\ UNCHANGED ret
       \/ \E e \in Exceptions :
          /\ status' = "error"
          /\ debug_logs' = update_status(
                             log_error(
                               update_status(debug_logs, status, "building_system_instruction"),
                               "Error in build_system_instruction", e),
                             "building_system_instruction", "error")
          /\ ret' = << RunResult(Text("Failed to build system instruction"),
                                 rounds, "error", <<>>) >>
          /\ pc' = "done"
          /\ messages' = Append(messages, Message("system", Text(prefix)))
    /\ UNCHANGED <<workflow_mode, task_input, rounds, workflow, plan_i, step_i,
                   selected_tools, requests, checked, tool_calls,
                   status_info, status_calls>>

\* lines 97-105 and 191-232: build_system_instruction and the early return
\* of run() when it fails.  The lookups of lines 194-198 may raise, before
\* any message is appended.
build_system_instruction ==
    /\ pc = "build"
    /\ \/ /\ messages' =
               IF workflow_mode = "manual"
               THEN Append(messages, Message("system", Text(prefix)))
               ELSE Append(Append(messages, Message("system", Text(prefix))),
                           Message("user", plan_instruction))
          /\ status' = "system_instruction_built"
          /\ debug_logs' = update_status(
                             update_status(debug_logs, status, "building_system_instruction"),
                             "building_system_instruction", "system_instruction_built")
          /\ pc' = "task"
          /\ UNCHANGED ret
       \/ \E e \in Exceptions :
          /\ status' = "error"
          /\ debug_logs' = update_status(
                             log_error(
                               update_status(debug_logs, status, "building_system_instruction"),
                               "Error in build_system_instruction", e),
                             "building_system_instruction", "error")
          /\ ret' = << RunResult(Text("Failed to build system instruction"),
                                 rounds, "error", <<>>) >>
          /\ pc' = "done"
          /\ UNCHANGED messages
    /\ UNCHANGED <<workflow_mode, task_input, rounds, workflow, plan_i, step_i,
                   selected_tools, requests, checked, tool_calls,
                   status_info, status_calls>>

\* lines 107-110
run_append_task ==
    /\ pc = "task"
    /\ messages' = Append(messages, Message("user", Text(task_input)))
    /\ workflow' = None
    /\ pc' = "plan"
    /\ UNCHANGED <<workflow_mode, task_input, status, rounds, debug_logs, plan_i,
                   step_i, selected_tools, requests, checked, tool_calls, ret,
                   status_info, status_calls>>

\* lines 116 and 234-259: manual_workflow
manual_workflow ==
    /\ pc = "plan"
    /\ workflow_mode # "automatic"
    /\ status' = "workflow_generated"
    /\ debug_logs' = update_status(
                       update_status(debug_logs, status, "generating_workflow"),
                       "generating_workflow", "workflow_generated")
    /\ workflow' = Some(ManualTemplate)
    /\ pc' = "check_workflow"
    /\ UNCHANGED <<workflow_mode, task_input, rounds, messages, plan_i, step_i,
                   selected_tools, requests, checked, tool_calls, ret,
                   status_info, status_calls>>

\* lines 113 and 262-264: entry of automatic_workflow
automatic_workflow_begin ==
    /\ pc = "plan"
    /\ workflow_mode = "automatic"
    /\ status' = "generating_workflow"
    /\ debug_logs' = update_status(debug_logs, status, "generating_workflow")
    /\ plan_i' = 0
    /\ pc' = "plan_loop"
    /\ UNCHANGED <<workflow_mode, task_input, rounds, messages, workflow, step_i,
                   selected_tools, requests, checked, tool_calls, ret,
                   status_info, status_calls>>

\* The LLMQuery handed to send_request, with how the call ended
Request(phase, n, msgs, tools, action_type, message_return_type, outcome) ==
    [phase |-> phase, n |-> n, messages |-> msgs, tools |-> tools,
     action_type |-> action_type, message_return_type |-> message_return_type,
     outcome |-> outcome]

\* range(self.plan_max_fail_times + 1): one attempt too many
PlanLoopOffByOne(i) == i <= plan_max_fail_times

\* line 264: for i in range(self.plan_max_fail_times)
PlanLoopContinues(i) == i < plan_max_fail_times

\* The round is counted only when the plan is accepted
plan_rounds_accepted_only(r, w) == IF Truthy(w) THEN r + 1 ELSE r

\* line 274: the round is counted whatever the verdict w of the validator
plan_rounds(r, w) == r + 1

\* automatic_workflow without its try block: the exception of send_request
\* reaches the handler of run()
automatic_workflow_attempt_uncaught ==
    /\ pc = "plan_loop"
    /\ PlanLoopContinues(plan_i)
    /\ \/ \E e \in Exceptions :
          /\ requests' = Append(requests,
                 Request("plan", plan_i + 1, messages, None, "", "json", "raised"))
          /\ except_handler(debug_logs, e)
          /\ UNCHANGED <<rounds, messages, plan_i, checked, workflow>>
       \/ \E w \in CheckResults :   \* send_request returns, check_workflow gives w
          /\ requests' = Append(requests,
                 Request("plan", plan_i + 1, messages, None, "", "json", "returned"))
          /\ checked' = Append(checked, w)
          /\ rounds' = plan_rounds(rounds, w)
          /\ IF Truthy(w)
             THEN /\ status' = "workflow_generated"
                  /\ debug_logs' = update_status(debug_logs, status, "workflow_generated")
                  /\ workflow' = w
                  /\ pc' = "plan_returned"
                  /\ UNCHANGED <<messages, plan_i, ret>>
             ELSE /\ messages' = Append(messages,
                                        Message("assistant", FailNotice(plan_i + 1)))
                  /\ plan_i' = plan_i + 1
                  /\ UNCHANGED <<status, debug_logs, workflow, pc, ret>>
    /\ UNCHANGED <<workflow_mode, task_input, step_i, selected_tools, tool_calls,
                   status_info, status_calls>>

\* lines 264-285 and 288-291: one iteration of the planning loop
automatic_workflow_attempt ==
    /\ pc = "plan_loop"
    /\ PlanLoopContinues(plan_i)
    /\ \/ \E e \in Exceptions :   \* send_request raises: lines 288-291
          /\ requests' = Append(requests,
                 Request("plan", plan_i + 1, messages, None, "", "json", "raised"))
          /\ status' = "error"
          /\ debug_logs' = update_status(
                             log_error(debug_logs, "Error in automatic_workflow", e),
                             status, "error")
          /\ workflow' = None
          /\ pc' = "plan_returned"
          /\ UNCHANGED <<rounds, messages, plan_i, checked>>
       \/ \E w \in CheckResults :   \* send_request returns, check_workflow gives w
          /\ requests' = Append(requests,
                 Request("plan", plan_i + 1, messages, None, "", "json", "returned"))
          /\ checked' = Append(checked, w)
          /\ rounds' = plan_rounds(rounds, w)
          /\ IF Truthy(w)
             THEN /\ status' = "workflow_generated"
                  /\ debug_logs' = update_status(debug_logs, status, "workflow_generated")
                  /\ workflow' = w
                  /\ pc' = "plan_returned"
                  /\ UNCHANGED <<messages, plan_i>>
             ELSE /\ messages' = Append(messages,
                                        Message("assistant", FailNotice(plan_i + 1)))
                  /\ plan_i' = plan_i + 1
                  /\ UNCHANGED <<status, debug_logs, workflow, pc>>
    /\ UNCHANGED <<workflow_mode, task_input, step_i, selected_tools, tool_calls,
                   ret, status_info, status_calls>>

\* lines 286-287: the planning loop ran out of attempts
automatic_workflow_exhausted ==
    /\ pc = "plan_loop"
    /\ ~PlanLoopContinues(plan_i)
    /\ status' = "workflow_generation_failed"
    /\ debug_logs' = update_status(debug_logs, status, "workflow_generation_failed")
    /\ workflow' = None
    /\ pc' = "plan_returned"
    /\ UNCHANGED <<workflow_mode, task_input, rounds, messages, plan_i, step_i,
                   selected_tools, requests, checked, tool_calls, ret,
                   status_info, status_calls>>

\* msgs[:2]: the planning instruction survives
FirstTwoEntries(msgs) == SubSeq(msgs, 1, IF Len(msgs) < 2 THEN Len(msgs) ELSE 2)

\* msgs[-1:]: the last entry is kept instead of the first
LastEntry(msgs) == IF Len(msgs) = 0 THEN <<>> ELSE <<msgs[Len(msgs)]>>

\* Python msgs[:1]
FirstEntry(msgs) == IF Len(msgs) = 0 THEN <<>> ELSE <<msgs[1]>>

\* The truncation applied only when a workflow was obtained
run_truncate_if_workflow ==
    /\ pc = "plan_returned"
    /\ messages' = IF workflow.none THEN messages ELSE FirstEntry(messages)
    /\ pc' = "check_workflow"
    /\ UNCHANGED <<workflow_mode, task_input, status, rounds, debug_logs, workflow,
                   plan_i, step_i, selected_tools, requests, checked, tool_calls,
                   ret, status_info, status_calls>>

\* line 114: "clear long context", after automatic_workflow returned
run_truncate ==
    /\ pc = "plan_returned"
    /\ messages' = FirstEntry(messages)
    /\ pc' = "check_workflow"
    /\ UNCHANGED <<workflow_mode, task_input, status, rounds, debug_logs, workflow,
                   plan_i, step_i, selected_tools, requests, checked, tool_calls,
                   ret, status_info, status_calls>>

\* The failure return without the transition to failed
run_no_workflow_keeps_status ==
    /\ pc = "check_workflow"
    /\ ~Truthy(workflow)
    /\ ret' = << RunResult(Text("Failed to generate a valid workflow."),
                           rounds, status, <<>>) >>
    /\ pc' = "done"
    /\ UNCHANGED <<workflow_mode, task_input, status, rounds, messages, debug_logs,
                   workflow, plan_i, step_i, selected_tools, requests, checked,
                   tool_calls, status_info, status_calls>>

\* lines 118-127: no workflow was obtained
run_no_workflow ==
    /\ pc = "check_workflow"
    /\ ~Truthy(workflow)
    /\ status' = "failed"
    /\ debug_logs' = update_status(debug_logs, status, "failed")
    /\ ret' = << RunResult(Text("Failed to generate a valid workflow."),
                           rounds, "failed", <<>>) >>
    /\ pc' = "done"
    /\ UNCHANGED <<workflow_mode, task_input, rounds, messages, workflow, plan_i,
                   step_i, selected_tools, requests, checked, tool_calls,
                   status_info, status_calls>>

\* lines 129-139: the workflow summary and the entry of the step loop
run_start_execution ==
    /\ pc = "check_workflow"
    /\ Truthy(workflow)
    /\ messages' = Append(messages, Message("user", WorkflowSummary(workflow.val)))
    /\ status' = "executing_workflow"
    /\ debug_logs' = update_status(debug_logs, status, "executing_workflow")
    /\ step_i' = 0
    /\ pc' = "step_loop"
    /\ UNCHANGED <<workflow_mode, task_input, rounds, workflow, plan_i,
                   selected_tools, requests, checked, tool_calls, ret,
                   status_info, status_calls>>

\* Tool resolution decided by the action type instead of the tool list
NeedsToolsByType(step) == step.action_type = "tool_use"

\* line 148: the condition under which tool resolution is attempted
NeedsTools(step) == step.tool_use # <<>>

\* lines 139-151: the head of one iteration of the step loop, up to the
\* tool resolution (pre_select_tools returns the tools or raises)
run_step_prepare ==
    /\ pc = "step_loop"
    /\ step_i < Len(workflow.val)
    /\ LET step == workflow.val[step_i + 1]
           logs == log_debug(debug_logs, "Executing step {i+1}: {action}",
                             <<step.action>>, step_i + 1)
       IN  /\ messages' = Append(messages,
                                 Message("user", StepPrompt(step_i + 1, step.action)))
           /\ IF NeedsTools(step)
              THEN /\ tool_calls' = Append(tool_calls, step.tool_use)
                   /\ \/ /\ selected_tools' = Some(step.tool_use)
                         /\ debug_logs' = logs
                         /\ pc' = "step_request"
                         /\ UNCHANGED <<status, ret>>
                      \/ \E e \in Exceptions :
                         /\ except_handler(logs, e)
                         /\ UNCHANGED selected_tools
              ELSE /\ selected_tools' = None
                   /\ debug_logs' = logs
                   /\ pc' = "step_request"
                   /\ UNCHANGED <<tool_calls, status, ret>>
    /\ UNCHANGED <<workflow_mode, task_input, rounds, workflow, plan_i, step_i,
                   requests, checked, status_info, status_calls>>

\* The query is built before the prompt of the step is appended
run_step_request_stale_messages ==
    /\ pc = "step_request"
    /\ LET step == workflow.val[step_i + 1]
           sent == SubSeq(messages, 1, Len(messages) - 1)
       IN  \/ \E r \in Responses :
              /\ requests' = Append(requests,
                     Request("step", step_i + 1, sent, selected_tools,
                             step.action_type, "", "returned"))
              /\ messages' = Append(messages, Message("assistant", Text(r)))
              /\ rounds' = rounds + 1
              /\ step_i' = step_i + 1
              /\ pc' = "step_loop"
              /\ UNCHANGED <<status, debug_logs, ret>>
           \/ \E e \in Exceptions :
              /\ requests' = Append(requests,
                     Request("step", step_i + 1, sent, selected_tools,
                             step.action_type, "", "raised"))
              /\ except_handler(debug_logs, e)
              /\ UNCHANGED <<messages, rounds, step_i>>
    /\ UNCHANGED <<workflow_mode, task_input, workflow, plan_i, selected_tools,
                   checked, tool_calls, status_info, status_calls>>

\* lines 153-163: the request of the step and the bookkeeping after it
run_step_request ==
    /\ pc = "step_request"
    /\ LET step == workflow.val[step_i + 1]
       IN  \/ \E r \in Responses :
              /\ requests' = Append(requests,
                     Request("step", step_i + 1, messages, selected_tools,
                             step.action_type, "", "returned"))
              /\ messages' = Append(messages, Message("assistant", Text(r)))
              /\ rounds' = rounds + 1
              /\ step_i' = step_i + 1
              /\ pc' = "step_loop"
              /\ UNCHANGED <<status, debug_logs, ret>>
           \/ \E e \in Exceptions :
              /\ requests' = Append(requests,
                     Request("step", step_i + 1, messages, selected_tools,
                             step.action_type, "", "raised"))
              /\ except_handler(debug_logs, e)
              /\ UNCHANGED <<messages, rounds, step_i>>
    /\ UNCHANGED <<workflow_mode, task_input, workflow, plan_i, selected_tools,
                   checked, tool_calls, status_info, status_calls>>

\* final_result keeps its initial value "" of line 136
run_finish_empty_result ==
    /\ pc = "step_loop"
    /\ step_i >= Len(workflow.val)
    /\ ret' = << RunResult(Text(""), rounds, "completed", <<>>) >>
    /\ status' = "completed"
    /\ debug_logs' = update_status(debug_logs, status, "completed")
    /\ pc' = "done"
    /\ UNCHANGED <<workflow_mode, task_input, rounds, messages, workflow, plan_i,
                   step_i, selected_tools, requests, checked, tool_calls,
                   status_info, status_calls>>

\* lines 165-175: after the last step
run_finish ==
    /\ pc = "step_loop"
    /\ step_i >= Len(workflow.val)
    /\ LET final_result == messages[Len(messages)].content
       IN  ret' = << RunResult(final_result, rounds, "completed", <<>>) >>
    /\ status' = "completed"
    /\ debug_logs' = update_status(debug_logs, status, "completed")
    /\ pc' = "done"
    /\ UNCHANGED <<workflow_mode, task_input, rounds, messages, workflow, plan_i,
                   step_i, selected_tools, requests, checked, tool_calls,
                   status_info, status_calls>>

(***************************************************************************)
(* get_status(): lines 66-90.  The debug_logs field of the snapshot is the *)
(* list itself, so it is not copied into status_info.  The attributes read *)
(* at lines 69-76 are set by the constructor, so the statement of the try  *)
(* block that can raise is line 78: json.dumps raises when agent_name or   *)
(* workflow_mode, which the caller supplies, is not serializable.  The     *)
(* "Status requested" entry is then already in the log.                    *)
(***************************************************************************)
\* A handler that records the error in self.status as the other handlers do
get_status_sets_error ==
    /\ status_calls < MaxStatusCalls
    /\ status_calls' = status_calls + 1
    /\ \/ /\ status_info' = << [status |-> status, rounds |-> <<rounds>>,
                                workflow_mode |-> <<workflow_mode>>, error |-> <<>>] >>
          /\ debug_logs' = log_debug(debug_logs, "Status requested", <<>>, 0)
          /\ UNCHANGED status
       \/ \E e \in SerializationErrors :
          /\ status_info' = << [status |-> "error", rounds |-> <<>>,
                                workflow_mode |-> <<>>, error |-> <<e>>] >>
          /\ debug_logs' = log_error(
                             log_debug(debug_logs, "Status requested", <<>>, 0),
                             "Error getting status: {str(e)}", e)
          /\ status' = "error"
    /\ UNCHANGED <<workflow_mode, task_input, rounds, messages, pc, workflow,
                   plan_i, step_i, selected_tools, requests, checked, tool_calls, ret>>

get_status ==
    /\ status_calls < MaxStatusCalls
    /\ status_calls' = status_calls + 1
    /\ \/ /\ status_info' = << [status |-> status, rounds |-> <<rounds>>,
                                workflow_mode |-> <<workflow_mode>>, error |-> <<>>] >>
          /\ debug_logs' = log_debug(debug_logs, "Status requested", <<>>, 0)
       \/ \E e \in SerializationErrors :
          /\ status_info' = << [status |-> "error", rounds |-> <<>>,
                                workflow_mode |-> <<>>, error |-> <<e>>] >>
          /\ debug_logs' = log_error(
                             log_debug(debug_logs, "Status requested", <<>>, 0),
                             "Error getting status: {str(e)}", e)
    /\ UNCHANGED <<workflow_mode, task_input, status, rounds, messages, pc, workflow,
                   plan_i, step_i, selected_tools, requests, checked, tool_calls, ret>>

Next ==
    \/ run_begin
    \/ build_system_instruction
    \/ run_append_task
    \/ manual_workflow
    \/ automatic_workflow_begin
    \/ automatic_workflow_attempt
    \/ automatic_workflow_exhausted
    \/ run_truncate
    \/ run_no_workflow
    \/ run_start_execution
    \/ run_step_prepare
    \/ run_step_request
    \/ run_finish
    \/ get_status

Spec == Init /\ [][Next]_vars

\* run() is sequential code: each of its blocks is eventually executed
Run ==
    \/ run_begin
    \/ build_system_instruction
    \/ run_append_task
    \/ manual_workflow
    \/ automatic_workflow_begin
    \/ automatic_workflow_attempt
    \/ automatic_workflow_exhausted
    \/ run_truncate
    \/ run_no_workflow
    \/ run_start_execution
    \/ run_step_prepare
    \/ run_step_request
    \/ run_finish

FairSpec == Init /\ [][Next]_vars /\ WF_vars(Run)

TypeOK ==
    /\ workflow_mode \in WorkflowModes
    /\ task_input \in TaskInputs
    /\ rounds \in Nat
    /\ pc \in {"init", "build", "task", "plan", "plan_loop", "plan_returned",
               "check_workflow", "step_loop", "step_request", "done"}
    /\ plan_i \in Nat
    /\ Len(ret) <= 1
    /\ status_calls \in 0..MaxStatusCalls

(***************************************************************************)
(* Properties                                                              *)
(***************************************************************************)
Range(f) == {f[k] : k \in DOMAIN f}

IsStatusChange(en) == en.message = StatusChangedFmt

\* The status transitions recorded in the log, in log order
StatusEntries == SelectSeq(debug_logs, IsStatusChange)

\* The states visited according to the log: the old state of the first
\* transition, then the new state of every transition
Visited ==
    IF StatusEntries = <<>> THEN <<>>
    ELSE <<StatusEntries[1].args[1]>> \o
         [k \in 1..Len(StatusEntries) |-> StatusEntries[k].args[2]]

PlanRequests == {k \in DOMAIN requests : requests[k].phase = "plan"}

StepRequests == {k \in DOMAIN requests : requests[k].phase = "step"}

\* C1: run() never raises to its caller: whatever the mode and whatever the
\* transport does, run() ends, and it ends by returning exactly one RunResult
\* whose status is completed, failed or error.
C1_RunAlwaysReturns ==
    /\ [](/\ pc # "raised"
          /\ Len(ret) <= 1
          /\ (pc = "done") <=> (Len(ret) = 1)
          /\ (pc = "done") =>
                /\ ret[1].status \in {"completed", "failed", "error"}
                /\ ret[1].status = status)
    /\ <>(pc = "done")

\* C1 witness: a run in automatic mode has returned after a step request raised
C1_Witness ==
    /\ pc = "done"
    /\ workflow_mode = "automatic"
    /\ Len(ret) = 1
    /\ \E k \in StepRequests : requests[k].outcome = "raised"

\* C2: when the validator rejects every response, automatic_workflow issues
\* exactly plan_max_fail_times requests, returns no workflow, and the status
\* at its return is workflow_generation_failed.
C2_PlanningBudget ==
    ( /\ pc = "plan_returned"
      /\ \A k \in DOMAIN requests : requests[k].outcome = "returned"
      /\ Len(checked) = Len(requests)
      /\ \A k \in DOMAIN checked : checked[k] = None )
    => /\ Len(requests) = plan_max_fail_times
       /\ workflow = None
       /\ status = "workflow_generation_failed"

\* C2 witness: automatic_workflow has returned after three rejected responses
C2_Witness ==
    /\ pc = "plan_returned"
    /\ Len(requests) = 3
    /\ checked = <<None, None, None>>
    /\ \A k \in DOMAIN requests : requests[k].outcome = "returned"

\* C3: for every run that returns completed, the returned rounds is the
\* number of requests issued: planning attempts plus one per step in
\* automatic mode, the number of steps (3) in manual mode.
C3_RoundsCountRequests ==
    (pc = "done" /\ ret[1].status = "completed")
    => /\ ret[1].rounds = Len(requests)
       /\ Cardinality(StepRequests) = Len(workflow.val)
       /\ workflow_mode = "automatic" =>
             ret[1].rounds = Cardinality(PlanRequests) + Len(workflow.val)
       /\ workflow_mode = "manual" =>
             /\ PlanRequests = {}
             /\ ret[1].rounds = 3

\* C3 witness: a completed automatic run whose first plan was rejected
C3_Witness ==
    /\ pc = "done"
    /\ ret[1].status = "completed"
    /\ workflow_mode = "automatic"
    /\ Cardinality(PlanRequests) = 2
    /\ Len(workflow.val) = 2

\* C4: if the request of step k raises, it is the last request of the run,
\* and run() returns status error with rounds equal to the rounds before
\* step 1 (one per planning request) plus k-1, so 1 in manual mode for k = 2;
\* debug_logs holds the error entry of that failure.
C4_NoStepRetry ==
    \A j \in StepRequests :
        requests[j].outcome = "raised"
        => /\ j = Len(requests)
           /\ pc = "done"
           /\ Len(ret) = 1
           /\ ret[1].status = "error"
           /\ ret[1].rounds = Cardinality(PlanRequests) + requests[j].n - 1
           /\ (workflow_mode = "manual" /\ requests[j].n = 2) => ret[1].rounds = 1
           /\ \E en \in Range(debug_logs) :
                 /\ en.type = "error"
                 /\ en.message = "Error during execution"
                 /\ en.error # <<>>
                 /\ en.error = ret[1].error

\* C4 witness: the request of step 2 raised in a manual run
C4_Witness ==
    /\ workflow_mode = "manual"
    /\ pc = "done"
    /\ \E j \in StepRequests : requests[j].outcome = "raised" /\ requests[j].n = 2

\* C5: the status transitions of debug_logs, read in log order, form a chain
\* from initialized to the current status; for a successful manual run the
\* states visited are exactly initialized, running, building_system_instruction,
\* system_instruction_built, generating_workflow, workflow_generated,
\* executing_workflow, completed.
C5_StatusChain ==
    /\ StatusEntries = <<>> => status = "initialized"
    /\ StatusEntries # <<>> =>
          /\ StatusEntries[1].args[1] = "initialized"
          /\ \A k \in 2..Len(StatusEntries) :
                StatusEntries[k].args[1] = StatusEntries[k - 1].args[2]
          /\ StatusEntries[Len(StatusEntries)].args[2] = status
    /\ (workflow_mode = "manual" /\ pc = "done" /\ status = "completed") =>
          Visited = << "initialized", "running", "building_system_instruction",
                       "system_instruction_built", "generating_workflow",
                       "workflow_generated", "executing_workflow", "completed" >>

\* C5 witness: a manual run has completed, with get_status called on the way
C5_Witness ==
    /\ workflow_mode = "manual"
    /\ pc = "done"
    /\ status = "completed"
    /\ status_calls > 0

IsPrefix(a, b) == Len(a) <= Len(b) /\ SubSeq(b, 1, Len(a)) = a

SystemMessage == Message("system", Text(prefix))

IsSummary(m) == m.content.kind = WorkflowSummary(<<>>).kind

IsStepPrompt(m) == m.content.kind = StepPrompt(0, "").kind

\* C6: automatic mode truncates the conversation to its first entry after a
\* workflow is accepted and before any step executes (every step request
\* starts with the system message followed by the workflow summary); manual
\* mode never truncates.
C6_Truncation ==
    /\ [](workflow_mode = "automatic" =>
            /\ pc = "plan_returned" => Len(messages) >= 3
            /\ (pc = "check_workflow" /\ Truthy(workflow)) => messages = <<SystemMessage>>
            /\ \A k \in StepRequests :
                  /\ requests[k].messages[1] = SystemMessage
                  /\ requests[k].messages[2] = Message("user", WorkflowSummary(workflow.val)))
    /\ [][(workflow_mode = "automatic" /\ pc = "plan_returned" /\ pc' # pc)
            => messages' = <<messages[1]>>]_vars
    /\ [][workflow_mode = "manual" => IsPrefix(messages, messages')]_vars

\* C6 witness: a step request was issued in automatic mode after a rejected plan
C6_Witness ==
    /\ workflow_mode = "automatic"
    /\ StepRequests # {}
    /\ Cardinality(PlanRequests) >= 2

\* C7 (as claimed): every action of a run leaves the messages already in the
\* conversation unchanged as a prefix of the new conversation, in both modes.
C7_AppendOnly == [][IsPrefix(messages, messages')]_vars

\* C7 (amended): every action of a run leaves the messages already in the
\* conversation unchanged as a prefix of the new conversation, except the
\* truncation of automatic mode after the planner returned, which keeps
\* exactly the first message.
C7_AppendOnlyButTruncation ==
    [][\/ IsPrefix(messages, messages')
       \/ /\ workflow_mode = "automatic"
          /\ pc = "plan_returned"
          /\ pc' = "check_workflow"
          /\ messages' = <<messages[1]>>]_vars

\* C7 witness: an automatic run appended a step prompt after the truncation
C7_Witness ==
    /\ workflow_mode = "automatic"
    /\ pc = "step_request"
    /\ step_i = 1

\* The tool lists handed to pre_select_tools for the steps in ss
RECURSIVE ToolLists(_)
ToolLists(ss) ==
    IF ss = <<>> THEN <<>>
    ELSE (IF Head(ss).tool_use # <<>> THEN <<Head(ss).tool_use>> ELSE <<>>)
         \o ToolLists(Tail(ss))

\* The number of steps whose prompt was appended
StepsStarted == Cardinality({k \in DOMAIN messages : IsStepPrompt(messages[k])})

\* C8: pre_select_tools is invoked for a step if and only if its tool_use
\* list is non-empty, and a step with an empty tool_use list, whatever its
\* action_type, issues its request with no tools offered.
C8_ToolResolution ==
    /\ tool_calls = ToolLists(SubSeq(workflow.val, 1, StepsStarted))
    /\ \A k \in StepRequests :
          LET step == workflow.val[requests[k].n]
          IN  /\ requests[k].tools.none <=> (step.tool_use = <<>>)
              /\ ~requests[k].tools.none => requests[k].tools.val = step.tool_use

\* C8 witness: a step of type tool_use with no tools issued its request, and
\* a step of type chat with a tool had its tool resolved
C8_Witness ==
    \/ \E k \in StepRequests :
          requests[k].action_type = "tool_use" /\ requests[k].tools.none
    \/ \E k \in StepRequests :
          requests[k].action_type = "chat" /\ ~requests[k].tools.none

\* C9: manual_workflow returns the fixed three-step workflow (tool_use, chat,
\* chat) whatever the state it is called in, issues no request and leaves
\* rounds and the conversation unchanged.
C9_ManualPlanning ==
    [][(pc = "plan" /\ workflow_mode = "manual" /\ pc' # pc) =>
          /\ ~workflow'.none
          /\ Len(workflow'.val) = 3
          /\ [k \in 1..3 |-> workflow'.val[k].action_type] = <<"tool_use", "chat", "chat">>
          /\ [k \in 1..3 |-> workflow'.val[k].tool_use] = << <<"demo_author/arxiv">>, <<>>, <<>> >>
          /\ [k \in 1..3 |-> workflow'.val[k].action] =
                << "Search for relevant mathematical concepts and formulas",
                   "Analyze the mathematical problem and provide solution steps",
                   "Calculate and verify the final answer" >>
          /\ requests' = requests
          /\ requests' = <<>>
          /\ rounds' = rounds
          /\ messages' = messages]_vars

\* C9 witness: manual_workflow has returned
C9_Witness ==
    /\ workflow_mode = "manual"
    /\ pc = "check_workflow"
    /\ ~workflow.none

\* automatic_workflow or manual_workflow returned None
PlannerReturnedNone ==
    /\ pc \in {"plan_returned", "check_workflow", "done"}
    /\ workflow.none
    /\ "generating_workflow" \in Range(Visited)

\* C10: whenever the planner returns no workflow, run() goes on to failed and
\* returns a RunResult with status failed and the fixed failure text; no
\* workflow summary is appended, the status is never executing_workflow and
\* no step request is issued.
C10_NoWorkflowFails ==
    /\ [](PlannerReturnedNone =>
            /\ \A k \in DOMAIN messages : ~IsSummary(messages[k])
            /\ "executing_workflow" \notin Range(Visited)
            /\ StepRequests = {}
            /\ pc = "done" =>
                  /\ status = "failed"
                  /\ ret = << RunResult(Text("Failed to generate a valid workflow."),
                                        rounds, "failed", <<>>) >>)
    /\ (PlannerReturnedNone ~> (pc = "done" /\ status = "failed"))

\* C10 witness: run() returned after the planner gave up
C10_Witness ==
    /\ PlannerReturnedNone
    /\ pc = "done"
    /\ Len(ret) = 1

HasError(message) ==
    \E en \in Range(debug_logs) : en.type = "error" /\ en.message = message

\* build_system_instruction returned False
BuildFailed == HasError("Error in build_system_instruction")

\* C11: if building the system instruction fails, status becomes error and
\* run() returns at once with the fixed result: the task input is not
\* appended, no planning is attempted, no request is issued and rounds is 0.
C11_BuildFailure ==
    BuildFailed =>
        /\ pc = "done"
        /\ status = "error"
        /\ ret = << RunResult(Text("Failed to build system instruction"), 0, "error", <<>>) >>
        /\ rounds = 0
        /\ messages = <<>>
        /\ requests = <<>>
        /\ checked = <<>>
        /\ workflow = None
        /\ Visited = << "initialized", "running", "building_system_instruction", "error" >>

\* C11 witness: run() returned after build_system_instruction failed in
\* automatic mode
C11_Witness ==
    /\ BuildFailed
    /\ workflow_mode = "automatic"
    /\ Len(ret) = 1

\* C12: for every run that returns completed, result is the content of the
\* last message of the conversation, which is the assistant message that
\* follows the prompt of the last step of the workflow.
C12_FinalResult ==
    (pc = "done" /\ ret[1].status = "completed") =>
        LET n == Len(messages)
            last == Len(workflow.val)
        IN  /\ n >= 2
            /\ ret[1].result = messages[n].content
            /\ messages[n].role = "assistant"
            /\ \E r \in Responses : messages[n].content = Text(r)
            /\ messages[n - 1] =
                  Message("user", StepPrompt(last, workflow.val[last].action))
            /\ requests[Len(requests)].phase = "step"
            /\ requests[Len(requests)].n = last
            /\ requests[Len(requests)].outcome = "returned"

\* C12 witness: a completed manual run whose last response differs from the
\* response before it
C12_Witness ==
    /\ pc = "done"
    /\ workflow_mode = "manual"
    /\ ret[1].status = "completed"
    /\ messages[Len(messages)].content # messages[Len(messages) - 2].content

IsStatusRequested(en) == en.type = "debug" /\ en.message = "Status requested"

\* The entries appended to the log between logs and logs2
Appended(logs, logs2) == SubSeq(logs2, Len(logs) + 1, Len(logs2))

\* C13 (as claimed): every get_status() call returns a snapshot whose status
\* and rounds are the current values, leaves status, rounds and the
\* conversation unchanged and only appends entries to debug_logs.
C13_StatusSnapshot ==
    [][status_calls' # status_calls =>
          /\ Len(status_info') = 1
          /\ status_info'[1].status = status
          /\ status_info'[1].rounds = <<rounds>>
          /\ UNCHANGED <<status, rounds, messages>>
          /\ IsPrefix(debug_logs, debug_logs')]_vars

\* C13 (amended): every get_status() call returns, leaves status, rounds and
\* the conversation unchanged and only appends entries to debug_logs, one of
\* them a "Status requested" entry; on the normal path that is the only new
\* entry and the snapshot holds the current status and rounds; when printing
\* the snapshot fails, an error entry follows and the snapshot returned is
\* the minimal one, with status error and no rounds.
C13_StatusSnapshotOrDegraded ==
    [][status_calls' # status_calls =>
          /\ Len(status_info') = 1
          /\ UNCHANGED <<status, rounds, messages, pc, ret>>
          /\ IsPrefix(debug_logs, debug_logs')
          /\ Len(SelectSeq(Appended(debug_logs, debug_logs'), IsStatusRequested)) = 1
          /\ \/ /\ status_info'[1].error = <<>>
                /\ status_info'[1].status = status
                /\ status_info'[1].rounds = <<rounds>>
                /\ status_info'[1].workflow_mode = <<workflow_mode>>
                /\ Len(debug_logs') = Len(debug_logs) + 1
             \/ /\ status_info'[1].error # <<>>
                /\ status_info'[1].status = "error"
                /\ status_info'[1].rounds = <<>>
                /\ Len(debug_logs') = Len(debug_logs) + 2
                /\ debug_logs'[Len(debug_logs')].type = "error"
                /\ debug_logs'[Len(debug_logs')].error = status_info'[1].error]_vars

\* C13 witness: get_status() returned the minimal error snapshot in the
\* middle of a run whose status is executing_workflow
C13_Witness ==
    /\ pc = "step_request"
    /\ status = "executing_workflow"
    /\ Len(status_info) = 1
    /\ status_info[1].status = "error"

\* C14: debug_logs is append-only: the log before any action is a prefix of
\* the log after it.
C14_LogAppendOnly == [][IsPrefix(debug_logs, debug_logs')]_vars

\* C14 witness: a run with a planning retry, a caught planning error and a
\* get_status() call has returned
C14_Witness ==
    /\ pc = "done"
    /\ HasError("Error in automatic_workflow")
    /\ Len(requests) >= 2
    /\ status_calls > 0

PlanRequestRaised == \E k \in PlanRequests : requests[k].outcome = "raised"

\* C15: if a planning request raises, automatic_workflow catches it, sets
\* status error and returns no workflow; the handler of run() is not entered,
\* and run() returns status failed (reached from error) with the fixed
\* failure text and no error field.
C15_PlanningErrorCaught ==
    PlanRequestRaised =>
        /\ requests[Len(requests)].phase = "plan"
        /\ requests[Len(requests)].outcome = "raised"
        /\ \A k \in 1..(Len(requests) - 1) : requests[k].outcome = "returned"
        /\ workflow = None
        /\ HasError("Error in automatic_workflow")
        /\ ~HasError("Error during execution")
        /\ pc \in {"plan_returned", "check_workflow", "done"}
        /\ pc # "done" => (status = "error" /\ ret = <<>>)
        /\ pc = "done" =>
              /\ status = "failed"
              /\ ret = << RunResult(Text("Failed to generate a valid workflow."),
                                    rounds, "failed", <<>>) >>
              /\ SubSeq(Visited, Len(Visited) - 1, Len(Visited)) = <<"error", "failed">>

\* C15 witness: run() returned after the second planning request raised
C15_Witness ==
    /\ PlanRequestRaised
    /\ pc = "done"
    /\ Len(requests) = 2

\* C16 (as claimed): when automatic_workflow returns, rounds has increased
\* (from 0) by the number of requests the planner issued, whether each
\* attempt was accepted, rejected or failed.
C16_RoundsCountAttempts ==
    pc = "plan_returned" => rounds = Cardinality(PlanRequests)

\* C16 (amended): when automatic_workflow returns, rounds has increased (from
\* 0) by the number of planner requests that returned a response, accepted or
\* rejected; a request that raised was issued but is not counted.
C16_RoundsCountResponses ==
    pc = "plan_returned" =>
        /\ rounds = Cardinality({k \in PlanRequests : requests[k].outcome = "returned"})
        /\ rounds = Len(checked)
        /\ PlanRequestRaised => rounds = Cardinality(PlanRequests) - 1
        /\ ~PlanRequestRaised => rounds = Cardinality(PlanRequests)

\* C16 witness: automatic_workflow returned after a rejected response and a
\* raising request
C16_Witness ==
    /\ pc = "plan_returned"
    /\ PlanRequestRaised
    /\ rounds = 1

IsStepRequest(q) == q.phase = "step"

\* The step requests, in call order
StepRequestSeq == SelectSeq(requests, IsStepRequest)

ExecutionStarted == \E k \in DOMAIN messages : IsSummary(messages[k])

SummaryIndex == CHOOSE k \in DOMAIN messages : IsSummary(messages[k])

\* C17: steps are executed in workflow order with one request per step: the
\* conversation after the workflow summary is prompt 1, response 1, prompt 2,
\* response 2, ...; the request of step j carries the conversation up to and
\* including the prompt of step j; rounds has been incremented once per
\* completed step before the next prompt is appended.
C17_StepOrder ==
    ExecutionStarted =>
        LET s == SummaryIndex
            wf == workflow.val
            tail == SubSeq(messages, s + 1, Len(messages))
            sr == StepRequestSeq
        IN  /\ \A j \in 1..Len(tail) :
                  IF j % 2 = 1
                  THEN tail[j] = Message("user",
                                   [kind |-> "At step {i + 1}, you need to: {action}. ",
                                    n |-> (j + 1) \div 2,
                                    text |-> wf[(j + 1) \div 2].action,
                                    wf |-> <<>>])
                  ELSE /\ tail[j].role = "assistant"
                       /\ tail[j].content.kind = "text"
                       /\ tail[j].content.text \in Responses
            /\ pc = "step_loop" => Len(tail) = 2 * step_i
            /\ pc = "step_request" => Len(tail) = 2 * step_i + 1
            /\ pc = "done" => Len(tail) \in {2 * step_i, 2 * step_i + 1}
            /\ step_i <= Len(wf)
            /\ rounds = Cardinality(PlanRequests) + step_i
            /\ Len(sr) \in {step_i, step_i + 1}
            /\ Len(sr) = step_i + 1 => (pc = "done" /\ sr[Len(sr)].outcome = "raised")
            /\ \A j \in 1..Len(sr) :
                  /\ sr[j].n = j
                  /\ sr[j].action_type = wf[j].action_type
                  /\ sr[j].messages = SubSeq(messages, 1, s + 2 * j - 1)

\* C17 witness: the request of step 2 has returned and step 3 is being prepared
C17_Witness ==
    /\ ExecutionStarted
    /\ pc = "step_request"
    /\ step_i = 2
    /\ Len(StepRequestSeq) = 2

\* The conversation handed to the first planning request
PlanningBase ==
    << SystemMessage, Message("user", plan_instruction), Message("user", Text(task_input)) >>

\* The failure notices numbered 1..n
Notices(n) ==
    [i \in 1..n |->
        Message("assistant",
                [kind |-> "Fail {i+1} times to generate a valid plan. I need to regenerate a plan",
                 n |-> i, text |-> "", wf |-> <<>>])]

\* C18: a valid response ends the planning with no further request; every
\* rejected attempt i appends the failure notice numbered i before the next
\* request, so the request of attempt j carries exactly the notices 1..j-1;
\* when the budget is exhausted the conversation holds the notices
\* 1..plan_max_fail_times.
C18_PlanningRetries ==
    /\ \A k \in PlanRequests :
          /\ requests[k].n = k
          /\ requests[k].messages = PlanningBase \o Notices(k - 1)
          /\ requests[k].tools = None
          /\ requests[k].message_return_type = "json"
    /\ \A k \in DOMAIN checked :
          IF ~checked[k].none /\ checked[k].val # <<>>
          THEN /\ k = Len(checked)
               /\ Cardinality(PlanRequests) = k
               /\ workflow = checked[k]
               /\ pc # "plan_loop"
          ELSE pc \in {"plan_loop", "plan_returned"} =>
                  /\ Len(messages) >= 3 + k
                  /\ messages[3 + k] = Notices(k)[k]
    /\ (pc = "plan_returned" /\ status = "workflow_generation_failed") =>
          messages = PlanningBase \o Notices(plan_max_fail_times)

\* C18 witness: the third planning request was accepted after two rejections
C18_Witness ==
    /\ pc = "plan_returned"
    /\ Len(checked) = 3
    /\ ~workflow.none
    /\ status = "workflow_generated"

IsFailNotice(m) == m.content.kind = Notices(1)[1].content.kind

\* C19: in automatic mode the truncation is applied whenever the planner
\* returns, with or without a workflow, and keeps only the system message;
\* so every step request carries the system message, the workflow summary and
\* the step prompts and responses so far, and never the task input, the
\* planning instruction or a failure notice.
C19_TruncationAlways ==
    workflow_mode = "automatic" =>
        /\ pc = "check_workflow" => messages = <<SystemMessage>>
        /\ (pc = "done" /\ PlannerReturnedNone) => messages = <<SystemMessage>>
        /\ \A k \in StepRequests :
              LET m == requests[k].messages
              IN  /\ Len(m) >= 3
                  /\ m[1] = SystemMessage
                  /\ m[2] = Message("user", WorkflowSummary(workflow.val))
                  /\ \A j \in 3..Len(m) :
                        \/ IsStepPrompt(m[j]) /\ m[j].role = "user"
                        \/ m[j].role = "assistant" /\ m[j].content.kind = "text"
                  /\ \A j \in DOMAIN m :
                        /\ m[j] # Message("user", Text(task_input))
                        /\ m[j].content.kind # "plan_instruction"
                        /\ ~IsFailNotice(m[j])

\* C19 witness: the planner returned no workflow after three notices and the
\* conversation was cut back to the system message
C19_Witness ==
    /\ workflow_mode = "automatic"
    /\ pc = "check_workflow"
    /\ workflow.none
    /\ Len(checked) = 3
    /\ messages = <<SystemMessage>>

EmptyList == [none |-> FALSE, val |-> <<>>]

\* C20: an empty step list returned by the validator is treated like an
\* invalid plan: it is never the workflow of the run, the next request (if
\* any) carries its failure notice, and when it used up the budget the run
\* ends failed; so executing_workflow and completed are reached only with a
\* workflow of at least one step, and a completed run has rounds >= 1.
C20_EmptyWorkflowRejected ==
    /\ "executing_workflow" \in Range(Visited) =>
          (~workflow.none /\ Len(workflow.val) >= 1)
    /\ status = "completed" => (rounds >= 1 /\ Len(workflow.val) >= 1)
    /\ \A k \in DOMAIN checked :
          checked[k] = EmptyList =>
              /\ workflow # EmptyList
              /\ k < Len(requests) =>
                    /\ requests[k + 1].phase = "plan"
                    /\ requests[k + 1].messages[Len(requests[k + 1].messages)] = Notices(k)[k]
              /\ (k = Len(requests) /\ pc # "plan_loop") =>
                    /\ k = plan_max_fail_times
                    /\ workflow = None
                    /\ pc = "done" => status = "failed"

\* C20 witness: a run completed after the validator returned an empty list
\* for the first response
C20_Witness ==
    /\ pc = "done"
    /\ status = "completed"
    /\ Len(checked) >= 2
    /\ checked[1] = EmptyList

====
